---- MODULE Spec2Model ----
(***************************************************************************)
(* Nutify: the UPS polling thread (app.py) and the aggregation cache       *)
(* UPSDataCache (core/db_module.py).                                       *)
(*                                                                         *)
(* Time is the local wall clock of the configured time zone in whole       *)
(* seconds (a fixed-offset zone: astimezone() keeps the instant, and       *)
(* replace(second=0, ...) floors it).  Measured values are in hundredths   *)
(* (get_ups_data rounds every float to 2 decimals), so 20.00 is 2000.      *)
(* None is -1 for numbers and times, "NONE" for strings; a field a sample  *)
(* does not report is MissingNum / "MISSING"; pandas' NaN taken as the     *)
(* last value of an object column is "NaN".                                *)
(***************************************************************************)
EXTENDS Integers, Sequences, FiniteSets, TLC

VARIABLES
    now,                    \* wall clock read by the current poll attempt, whole seconds
    microsecond,            \* the sub-second part of that clock reading
    pc,                     \* polling_thread: "poll" (about to attempt) or "sleep"
    failures,               \* polling_thread.failures
    sleep_time,             \* the delay of the time.sleep() the thread is in
    last_outcome,           \* what the last attempt was: none/success/read_fail/unexpected
    failures_before,        \* failures as it was when the last attempt started
    polls,                  \* number of completed sleeps (bounds the run)
    data,                   \* UPSDataCache.data: buffered (timestamp, sample)
    next_save_time,         \* UPSDataCache.next_save_time
    next_hour,              \* UPSDataCache.next_hour
    hourly_data,            \* UPSDataCache.hourly_data
    last_daily_aggregation, \* UPSDataCache.last_daily_aggregation (a date)
    records,                \* table ups_dynamic_data, in insertion order
    boot_len,               \* rows the table held when the process started
    flush_result,           \* last calculate_and_save_averages: none/ok/failed
    flush_window,           \* the buffer the last successful flush averaged
    flush_log,              \* per successful flush: record timestamp, wall clock, row,
                            \* timestamps of the samples averaged
    hourly_log,             \* per committed hourly rollup: hour, row, wall clock, boundary
    daily_log,              \* per run of aggregate_daily_data: date, wall clock, rows
                            \* added, index the added row gets
    boot,                   \* init_database: the step the start-up is at, "running", "down"
    boots,                  \* process starts on this store so far
    _UPSStaticData,         \* memoized model of ups_static_data (NoModel: None)
    _UPSDynamicData,        \* memoized model of ups_dynamic_data
    _UPSData,               \* get_ups_model's memo
    storage,                \* the tables of the database file and their columns
    boot_storage,           \* storage as the process found it when it started
    static_rows,            \* table ups_static_data
    reads,                  \* outcomes of this process' get_available_variables calls
    last_call,              \* the last schema / identity call: what it saw and returned
    tpc,                    \* where each thread is in the handler it runs
    ups_lock,               \* db_module.ups_lock: the thread holding it, or Free
    data_lock,              \* db_module.data_lock: the thread holding it, or Free
    upsc_running,           \* threads with an upsc subprocess in flight
    upsc_result,            \* per thread, how its last upsc invocation ended
    sample,                 \* save_ups_data.data: what get_ups_data returned
    pending,                \* calculate_and_save_averages.dynamic_data, to be committed
    response,               \* what the last page / API request was answered with
    requests,               \* page / API requests received
    command_log,            \* rows of ups_variables_upscmd
    field_window,           \* the buffered samples' values of ups_temperature
    field_flush             \* the last flush of ups_temperature: result, value set

vars == <<now, microsecond, pc, failures, sleep_time, last_outcome, failures_before, polls,
          data, next_save_time, next_hour, hourly_data, last_daily_aggregation,
          records, boot_len, flush_result, flush_window, flush_log, hourly_log,
          daily_log, boot, boots, _UPSStaticData, _UPSDynamicData, _UPSData, storage,
          boot_storage, static_rows, reads, last_call, tpc, ups_lock, data_lock,
          upsc_running, upsc_result, sample, pending, response, requests, command_log,
          field_window, field_flush>>

pollerVars == <<now, microsecond, pc, failures, sleep_time, last_outcome, failures_before, polls>>

cacheVars == <<data, next_save_time, next_hour, hourly_data, last_daily_aggregation,
               flush_result, flush_window, flush_log, hourly_log, daily_log>>

bootVars == <<boot, boots, _UPSStaticData, _UPSDynamicData, _UPSData, storage,
              boot_storage, static_rows, reads, last_call>>

lockVars == <<tpc, ups_lock, data_lock, upsc_running, upsc_result, sample, pending,
              response, requests, command_log>>

fieldVars == <<field_window, field_flush>>

aggVars == <<data, next_save_time, next_hour, hourly_data, last_daily_aggregation,
             records, flush_result, flush_window, flush_log, hourly_log, daily_log>>

\* ---------------------------------------------------------------- constants
Minute == 60
Hour == 3600
Day == 86400
MaxBackoff == 300
PollInterval == 1

None == -1
MissingNum == -1

\* a clock reading that falls between two whole seconds (the usual case)
HalfSecond == 500000

\* ------------------------------------------------------------------- bounds
MaxPolls == 3
MaxBuf == 3
MaxSteadyPolls == 124
MaxAvgPolls == 2
MaxFairPolls == 4
MaxBoots == 2
MaxReads == 4
MaxLockPolls == 3
MaxRequests == 1
MaxCommands == 1
MaxLatePolls == 3
MaxDailyPolls == 3
MaxFieldWindow == 3
MaxContendPolls == 1

\* the midnight the runs are placed around (start of day 1)
T0 == Day

StartTimes == {T0 - 62, T0 - 2}
Latencies == {0, 58}
Powers == {1000, 2000}

\* ------------------------------------------------------------------ helpers
Min(a, b) == IF a < b THEN a ELSE b

Abs(x) == IF x < 0 THEN -x ELSE x

Pow2(n) == 2 ^ n

FloorTo(t, unit) == t - (t % unit)

RECURSIVE SumSeq(_)
SumSeq(s) == IF s = <<>> THEN 0 ELSE Head(s) + SumSeq(Tail(s))

TruncatedMean(sum, n) == sum \div n

\* round(x, 2) of the mean sum/n of values held in hundredths (ties to even)
Round2Mean(sum, n) ==
    LET q == sum \div n
        r == sum % n
    IN  IF 2 * r < n THEN q
        ELSE IF 2 * r > n THEN q + 1
        ELSE IF q % 2 = 0 THEN q ELSE q + 1

Present(s) == SelectSeq(s, LAMBDA v : v # MissingNum)

\* ------------------------------------------------------------- UPSDataCache
DriftingNextMinute(current_time) == current_time + Minute

get_next_minute(current_time) == FloorTo(current_time, Minute) + Minute

get_next_hour(current_time) == FloorTo(current_time, Hour) + Hour

is_save_time(nst, current_time) == nst # None /\ current_time >= nst

Column(buf, f) == [i \in 1..Len(buf) |-> buf[i].values[f]]

\* mean().round(2) of a numeric column; NaN (missing) entries are skipped
NumericAverage(col) ==
    LET obs == Present(col)
    IN  IF obs = <<>> THEN None ELSE Round2Mean(SumSeq(obs), Len(obs))

\* iloc[-1] of an object column: the value in the last row, NaN when the last
\* sample does not report the field; no column when no sample reports it
LastValue(col) ==
    IF \A i \in 1..Len(col) : col[i] = "MISSING" THEN "NONE"
    ELSE IF col[Len(col)] = "MISSING" THEN "NaN"
    ELSE col[Len(col)]

calculate_averages(buf) ==
    [ups_realpower |-> NumericAverage(Column(buf, "ups_realpower")),
     battery_charge |-> NumericAverage(Column(buf, "battery_charge")),
     ups_status |-> LastValue(Column(buf, "ups_status"))]

\* a row of ups_dynamic_data; timestamp_us is the sub-second part of
\* timestamp_tz
Row(ts, power, hrs, days, charge, status) ==
    [timestamp_tz |-> ts, timestamp_us |-> 0, ups_realpower |-> power,
     ups_realpower_hrs |-> hrs,
     ups_realpower_days |-> days, battery_charge |-> charge, ups_status |-> status]

\* UPSDynamicData.__init__: ups_realpower_days None becomes 0.0
NewRow(ts, power, hrs, days, charge, status) ==
    Row(ts, power, hrs, IF days = None THEN 0 ELSE days, charge, status)

\* rows with timestamp_tz in [from, to)
RowsIn(store, from, to) ==
    SelectSeq(store, LAMBDA r : r.timestamp_tz >= from /\ r.timestamp_tz < to)

BufferKept(buf) == buf

\* self.data = [] after the commit
BufferAfterFlush(buf) == <<>>

StampedAtNow(nst, current_time) == current_time

\* dynamic_data.timestamp_tz = self.next_save_time
RecordTimestamp(nst, current_time) == nst

CurrentHourStart(boundary) == boundary

HourWindowStart(boundary) == boundary - Hour

\* hourly rollup of the hour that ends at boundary: None when nothing to average
HourlyAverage(store, boundary) ==
    LET hour_data == RowsIn(store, HourWindowStart(boundary), HourWindowStart(boundary) + Hour)
        powers == SelectSeq([i \in 1..Len(hour_data) |-> hour_data[i].ups_realpower],
                            LAMBDA p : p # None)
    IN  IF powers = <<>> THEN None ELSE Round2Mean(SumSeq(powers), Len(powers))

SameHourAgain(current_time) == FloorTo(current_time, Hour)

NextHourAfterRollup(current_time) == get_next_hour(current_time)

LocalDate(t) == t \div Day

should_aggregate_daily(current_time, last) ==
    /\ (current_time % Day) \div Hour = 0
    /\ ((current_time % Day) % Hour) \div Minute = 0
    /\ last # LocalDate(current_time)

\* t1.u1 is no later than t2.u2 (seconds . microseconds)
NotAfter(t1, u1, t2, u2) == t1 < t2 \/ (t1 = t2 /\ u1 <= u2)

\* rows with timestamp_tz in [from.us, to.us)
RowsBetween(store, from, to, us) ==
    SelectSeq(store, LAMBDA r : /\ NotAfter(from, us, r.timestamp_tz, r.timestamp_us)
                                /\ ~NotAfter(to, us, r.timestamp_tz, r.timestamp_us))

\* the row aggregate_daily_data adds, as a sequence of zero or one rows;
\* replace(hour=0, minute=0, second=0) leaves the microsecond of current_time
\* (here us) in aggregation_time
DailyRows(store, current_time, us) ==
    LET aggregation_time == FloorTo(current_time, Day)
        win == RowsBetween(store, aggregation_time - Day, aggregation_time, us)
        hrs == SelectSeq([i \in 1..Len(win) |-> win[i].ups_realpower_hrs],
                         LAMBDA h : h # None)
    IN  IF hrs = <<>> \/ SumSeq(hrs) = 0 THEN <<>>
        ELSE <<[NewRow(aggregation_time - Day, None, None,
                       Round2Mean(SumSeq(hrs), Len(hrs)), None, "NONE")
                   EXCEPT !.timestamp_us = us]>>


\* ----------------------------------------------------------- polling_thread
DecayingFailures(success, f) == IF success THEN (IF f > 0 THEN f - 1 ELSE 0) ELSE f + 1

\* failures after save_ups_data returned (success, error)
FailuresAfter(success, f) == IF success THEN 0 ELSE f + 1

\* the except branches: time.sleep(min(300, 2 ** failures))
BackoffDelay(f) == Min(MaxBackoff, Pow2(f))

ExitOnError == "exit"

\* where the thread is after an except branch has run: it sleeps, and the
\* while True loop goes round again
AfterError == "sleep"

\* ------------------------------------------------ device and schema registry
Absent == ""

\* stdout of upsc: the keys it reports (a subset of the NUT variables, under
\* their column names), each with its raw text
Stdout(model, realpower, charge, status, temperature) ==
    [device_model |-> model, ups_realpower |-> realpower, battery_charge |-> charge,
     ups_status |-> status, ups_temperature |-> temperature]

EmptyStdout == Stdout(Absent, Absent, Absent, Absent, Absent)

ReportA == Stdout("Smart-UPS 750", "10.0", Absent, "OL", "20")

ReportB == Stdout("Back-UPS 500", Absent, "87.2", "OB", "n/a")

\* one upsc invocation: exit 0 with a report, a non-zero exit with nothing on
\* stdout (device unreachable), or no exit within the command timeout
UpscResult(kind, out) == [kind |-> kind, stdout |-> out]

UpscResults ==
    {UpscResult("ok", ReportA), UpscResult("ok", ReportB),
     UpscResult("nonzero", EmptyStdout), UpscResult("timeout", EmptyStdout)}

FloatParses(value) == value \in {"10.0", "87.2", "20"}

IntParses(value) == value \in {"20"}

\* round(float(value), 2), in hundredths
FloatValue(value) ==
    CASE value = "10.0" -> 1000
      [] value = "87.2" -> 8720
      [] value = "20" -> 2000

STATIC_FIELDS == {"device_model"}

DYNAMIC_FIELDS == {"ups_realpower", "battery_charge", "ups_status", "ups_temperature"}

\* try float(value) -> Float, else try int(value) -> Integer, else String(255)
ColumnType(value) ==
    IF FloatParses(value) THEN "Float"
    ELSE IF IntParses(value) THEN "Integer"
    ELSE "String"

\* subprocess.run(..., timeout=...) under ups_lock: only the timeout raises,
\* the return code is not looked at
get_available_variables(res) ==
    [raised |-> res.kind = "timeout", variables |-> res.stdout]

Reported(variables, fields) == {k \in fields : variables[k] # Absent}

NoModel == [tablename |-> "NONE", columns |-> {}]

UPSStaticData(variables) ==
    [tablename |-> "ups_static_data",
     columns |-> {<<"id", "Integer">>, <<"timestamp", "DateTime">>}
                 \cup {<<k, ColumnType(variables[k])>> :
                          k \in Reported(variables, STATIC_FIELDS)}]

UPSDynamicData(variables) ==
    [tablename |-> "ups_dynamic_data",
     columns |-> {<<"id", "Integer">>, <<"timestamp_tz", "DateTime">>,
                  <<"ups_realpower", "Float">>, <<"ups_realpower_hrs", "Float">>,
                  <<"ups_realpower_days", "Float">>}
                 \cup {<<k, ColumnType(variables[k])>> :
                          k \in Reported(variables, DYNAMIC_FIELDS) \ {"ups_realpower"}}]

NeverMemoized(memo) == FALSE

\* `if (_UPSStaticData is not None): return _UPSStaticData`
Memoized(memo) == memo # NoModel

\* what a model getter did: the class it returned, whether it ran upsc,
\* whether it raised
ModelCall(model, queried, raised) ==
    [model |-> model, queried |-> queried, raised |-> raised]

create_static_model(memo, res) ==
    IF Memoized(memo) THEN ModelCall(memo, FALSE, FALSE)
    ELSE IF get_available_variables(res).raised THEN ModelCall(NoModel, TRUE, TRUE)
    ELSE ModelCall(UPSStaticData(get_available_variables(res).variables), TRUE, FALSE)

create_dynamic_model(memo, res) ==
    IF Memoized(memo) THEN ModelCall(memo, FALSE, FALSE)
    ELSE IF get_available_variables(res).raised THEN ModelCall(NoModel, TRUE, TRUE)
    ELSE ModelCall(UPSDynamicData(get_available_variables(res).variables), TRUE, FALSE)

get_ups_model(data_memo, dynamic_memo, res) ==
    IF Memoized(data_memo) THEN ModelCall(data_memo, FALSE, FALSE)
    ELSE create_dynamic_model(dynamic_memo, res)

HasColumn(columns, name) == \E c \in columns : c[1] = name

NoTable == {}

NoStorage == [ups_static_data |-> NoTable, ups_dynamic_data |-> NoTable]

\* db.create_all(): creates the tables that do not exist, leaves the others
create_all(store, static, dynamic) ==
    [ups_static_data |-> IF store.ups_static_data = NoTable THEN static.columns
                         ELSE store.ups_static_data,
     ups_dynamic_data |-> IF store.ups_dynamic_data = NoTable THEN dynamic.columns
                          ELSE store.ups_dynamic_data]

\* the attributes the model has and the device reports
SetColumns(model, variables) ==
    {k \in DOMAIN variables : variables[k] # Absent /\ HasColumn(model.columns, k)}

\* the INSERT names the columns that were set: it fails on one the table lacks
Insertable(table, columns) == \A k \in columns : HasColumn(table, k)

\* UPSStaticData(id=1) with the static fields the device reports
StaticRow(model, variables) ==
    [id |-> 1,
     device_model |-> IF "device_model" \in SetColumns(model, variables)
                      THEN variables.device_model ELSE Absent]

\* session.add + commit of the identity row; id is the primary key
InsertStatic(rows, table, model, variables) ==
    IF /\ Insertable(table, SetColumns(model, variables))
       /\ \A i \in 1..Len(rows) : rows[i].id # StaticRow(model, variables).id
    THEN Append(rows, StaticRow(model, variables))
    ELSE rows

AlwaysInitialize(count) == TRUE

\* init_database: `SELECT COUNT(*) FROM ups_static_data` ... `if result == 0`
StaticDataMissing(count) == count = 0

\* the bootstrap row of insert_initial_dynamic_data (the reports give a
\* numeric field a number or nothing)
InitialDynamicRow(model, variables, ts) ==
    LET has(k) == k \in SetColumns(model, variables)
    IN  NewRow(ts,
               IF has("ups_realpower") THEN FloatValue(variables.ups_realpower) ELSE None,
               None, None,
               IF has("battery_charge") THEN FloatValue(variables.battery_charge) ELSE None,
               IF has("ups_status") THEN variables.ups_status ELSE "NONE")

InsertDynamic(rows, table, model, variables, ts) ==
    IF Insertable(table, SetColumns(model, variables))
    THEN Append(rows, InitialDynamicRow(model, variables, ts))
    ELSE rows

Call(fn, before, r, res, rows) ==
    [fn |-> fn, before |-> before, returned |-> r.model, queried |-> r.queried,
     device |-> res, rows_before |-> rows]

NoCall == Call("none", NoModel, ModelCall(NoModel, FALSE, FALSE),
               UpscResult("ok", EmptyStdout), 0)

\* a sample: the fields of one device read the model follows
Sample(power, charge, status) ==
    [ups_realpower |-> power, battery_charge |-> charge, ups_status |-> status]

\* ------------------------------------------------------------ threads, locks
Threads == {"poller", "web", "cmd", "event"}

Free == "free"

\* leaving `with ups_lock:` / `with data_lock:`, normally or by an exception
HeldAfterRead(holder) == holder

UpsLockReleased(holder) == Free

StillHeld(holder) == holder

DataLockReleased(holder) == Free

\* get_ups_data: the timeout raises (UPSDataError), the return code is not
\* looked at; a float is rounded to 2 decimals; without ups.realpower the
\* power is load * nominal / 100, both '0' when not reported
get_ups_data(res) ==
    LET raw == res.stdout
    IN  [raised |-> res.kind = "timeout",
         data |-> Sample(IF raw.ups_realpower # Absent THEN FloatValue(raw.ups_realpower)
                         ELSE 0,
                         IF raw.battery_charge # Absent THEN FloatValue(raw.battery_charge)
                         ELSE MissingNum,
                         IF raw.ups_status # Absent THEN raw.ups_status ELSE "MISSING")]

NoSample == Sample(MissingNum, MissingNum, "MISSING")

NoRow == Row(None, None, None, None, None, "NONE")

NoResponse == [status |-> "none", data |-> NoSample]

\* no request in progress, no lock taken
Unlocked ==
    /\ tpc = [t \in Threads |-> "idle"]
    /\ ups_lock = Free
    /\ data_lock = Free
    /\ upsc_running = {}
    /\ upsc_result = [t \in Threads |-> "none"]
    /\ sample = NoSample
    /\ pending = NoRow
    /\ response = NoResponse
    /\ requests = 0
    /\ command_log = 0

\* a process whose init_database has completed against a device reporting
\* report
BootedWith(report) ==
    /\ boot = "running"
    /\ boots = 1
    /\ _UPSStaticData = UPSStaticData(report)
    /\ _UPSDynamicData = UPSDynamicData(report)
    /\ _UPSData = UPSDynamicData(report)
    /\ storage = create_all(NoStorage, UPSStaticData(report), UPSDynamicData(report))
    /\ boot_storage = storage
    /\ static_rows = <<StaticRow(UPSStaticData(report), report)>>
    /\ reads = <<>>
    /\ last_call = NoCall

Booted == BootedWith(ReportA)

\* ------------------------------------------------- one field through a flush
\* a value as Python holds it: a float (in hundredths) or a str
Num(n) == [type |-> "float", num |-> n, text |-> Absent]

Text(s) == [type |-> "str", num |-> 0, text |-> s]

\* get_ups_data: float(value) rounded to 2 decimals, the text itself when
\* float() raises ValueError
ParsedValue(value) == IF FloatParses(value) THEN Num(FloatValue(value)) ELSE Text(value)

\* calculate_averages on one column: a column of floats is numeric and gives
\* mean().round(2); a column holding a str has dtype object and gives iloc[-1]
FieldAverage(col) ==
    IF \A i \in 1..Len(col) : col[i].type = "float"
    THEN Num(Round2Mean(SumSeq([i \in 1..Len(col) |-> col[i].num]), Len(col)))
    ELSE col[Len(col)]

\* `if hasattr(dynamic_data, key): setattr(dynamic_data, key, value)`
SetAttr(columns, name, value) == value

TypeOfColumn(columns, name) == CHOOSE t \in {c[2] : c \in columns} : <<name, t>> \in columns

\* the Python type a column type stands for
PythonType(column_type) ==
    CASE column_type = "Float" -> "float"
      [] column_type = "Integer" -> "int"
      [] column_type = "String" -> "str"

\* db.session.commit() of the record: a Float column binds its value with
\* float(value), which raises on a text that is no number; a String column
\* passes its value on as it is
CommitRaises(column_type, value) == column_type = "Float" /\ value.type = "str"

NoFieldFlush == [result |-> "none", column |-> "NONE", value |-> Text(Absent)]

FieldIdle ==
    /\ field_window = <<>>
    /\ field_flush = NoFieldFlush

\* ------------------------------------------------------------------- inputs
Samples == {Sample(p, MissingNum, "OL") : p \in Powers}

AvgSamples == {Sample(p, c, s) : p \in {1000, 2000, 3000}, c \in {MissingNum, 8720},
                                 s \in {"OL", "OB", "MISSING"}}

SteadySample == Sample(1000, MissingNum, "OL")

FlushOutcomes == {"ok", "avg_fail", "query_fail", "commit_fail"}

\* tables a restarted process can find: empty; the bootstrap row alone (the
\* device reports no ups.realpower); bootstrap row, a row carrying an hourly
\* average and a per-minute row, all in the hour before T0
InitialStores ==
    { <<>>,
      <<NewRow(T0 - 3007, None, None, None, 9000, "OL")>>,
      <<NewRow(T0 - 3600, 1200, 1100, None, None, "OL"),
        NewRow(T0 - 3007, None, None, None, 9000, "OL"),
        NewRow(T0 - 120, 1501, None, None, None, "OL")>> }

\* --------------------------------------------------------------------- Init
\* the poller and the cache of a process that has not polled yet
Unpolled(starts, micros, stores) ==
    /\ now \in starts
    /\ microsecond \in micros
    /\ pc = "poll"
    /\ failures = 0
    /\ sleep_time = 0
    /\ last_outcome = "none"
    /\ failures_before = 0
    /\ polls = 0
    /\ data = <<>>
    /\ next_save_time = None
    /\ next_hour = None
    /\ hourly_data = <<>>
    /\ last_daily_aggregation = None
    /\ records \in stores
    /\ boot_len = Len(records)
    /\ flush_result = "none"
    /\ flush_window = <<>>
    /\ flush_log = <<>>
    /\ hourly_log = <<>>
    /\ daily_log = <<>>

InitAt(starts, micros, stores) ==
    /\ Unpolled(starts, micros, stores)
    /\ Booted
    /\ Unlocked
    /\ FieldIdle

InitWith(starts, stores) == InitAt(starts, {HalfSecond}, stores)

Init == InitWith(StartTimes, InitialStores)

\* ------------------------------------------------------------------ actions
\* One pass of the loop body in which get_ups_data returns the sample s:
\* save_ups_data adds it to the cache and runs calculate_and_save_averages,
\* whose due flush ends as o; d is whether the daily row's commit succeeds.
PollSuccess(s, o, d) ==
    /\ pc = "poll"
    /\ LET nst == IF next_save_time = None THEN get_next_minute(now) ELSE next_save_time
           buf == Append(data, [timestamp |-> now, values |-> s])
           nh == IF next_hour = None THEN get_next_hour(now) ELSE next_hour
           due == is_save_time(nst, now)
           averages == calculate_averages(buf)
           crossing == now >= nh
           hrs == IF crossing THEN HourlyAverage(records, nh) ELSE None
           rec == NewRow(RecordTimestamp(nst, now), averages.ups_realpower, hrs, None,
                         averages.battery_charge, averages.ups_status)
           appended == Append(hourly_data,
                              [timestamp |-> nst, ups_realpower |-> averages.ups_realpower])
           committed == Append(records, rec)
           daily == should_aggregate_daily(now, last_daily_aggregation)
           dailyRows == IF daily THEN DailyRows(committed, now, microsecond) ELSE <<>>
       IN  /\ o = "ok" \/ due
           /\ o = "query_fail" => crossing
           /\ d \/ (due /\ o = "ok" /\ dailyRows # <<>>)
           /\ data' = IF due /\ o = "ok" THEN BufferAfterFlush(buf) ELSE buf
           /\ next_save_time' = IF due /\ o = "ok" THEN get_next_minute(now) ELSE nst
           /\ next_hour' = IF due /\ o \in {"ok", "commit_fail"} /\ crossing
                           THEN NextHourAfterRollup(now) ELSE nh
           /\ hourly_data' = IF ~due \/ o = "avg_fail" THEN hourly_data
                             ELSE IF o = "query_fail" \/ ~crossing THEN appended
                             ELSE <<>>
           /\ last_daily_aggregation' = IF due /\ o = "ok" /\ daily
                                        THEN LocalDate(now) ELSE last_daily_aggregation
           /\ records' = IF due /\ o = "ok"
                         THEN committed \o (IF d THEN dailyRows ELSE <<>>)
                         ELSE records
           /\ flush_result' = IF ~due THEN "none" ELSE IF o = "ok" THEN "ok" ELSE "failed"
           /\ flush_window' = IF due /\ o = "ok" THEN buf ELSE flush_window
           /\ flush_log' = IF due /\ o = "ok"
                           THEN Append(flush_log,
                                       [ts |-> nst, at |-> now, row |-> Len(records) + 1,
                                        stamps |-> {buf[i].timestamp : i \in 1..Len(buf)}])
                           ELSE flush_log
           /\ hourly_log' = IF due /\ o = "ok" /\ crossing
                            THEN Append(hourly_log, [hour |-> HourWindowStart(nh),
                                                     row |-> Len(records) + 1,
                                                     at |-> now, boundary |-> nh])
                            ELSE hourly_log
           /\ daily_log' = IF due /\ o = "ok" /\ daily
                           THEN Append(daily_log, [date |-> LocalDate(now), at |-> now,
                                                   rows |-> IF d THEN Len(dailyRows) ELSE 0,
                                                   row |-> Len(records) + 2])
                           ELSE daily_log
    /\ failures_before' = failures
    /\ failures' = FailuresAfter(TRUE, failures)
    /\ last_outcome' = "success"
    /\ sleep_time' = PollInterval
    /\ pc' = "sleep"
    /\ UNCHANGED <<now, microsecond, polls, boot_len, fieldVars>>
    /\ UNCHANGED <<bootVars, lockVars>>

\* get_ups_data raises UPSDataError (upsc missing, timed out, ...): save_ups_data
\* catches it and returns (False, message)
PollReadFail ==
    /\ pc = "poll"
    /\ failures_before' = failures
    /\ failures' = FailuresAfter(FALSE, failures)
    /\ last_outcome' = "read_fail"
    /\ sleep_time' = PollInterval
    /\ pc' = "sleep"
    /\ flush_result' = "none"
    /\ UNCHANGED <<now, microsecond, polls, boot_len, fieldVars, data, next_save_time, next_hour, hourly_data,
                   last_daily_aggregation, records, flush_window, flush_log, hourly_log,
                   daily_log>>
    /\ UNCHANGED <<bootVars, lockVars>>

\* an exception escapes the loop body outside save_ups_data (entering the
\* application context fails): the broad except branch backs off
PollUnexpected ==
    /\ pc = "poll"
    /\ failures_before' = failures
    /\ failures' = failures + 1
    /\ last_outcome' = "unexpected"
    /\ sleep_time' = BackoffDelay(failures + 1)
    /\ pc' = AfterError
    /\ flush_result' = "none"
    /\ UNCHANGED <<now, microsecond, polls, boot_len, fieldVars, data, next_save_time, next_hour, hourly_data,
                   last_daily_aggregation, records, flush_window, flush_log, hourly_log,
                   daily_log>>
    /\ UNCHANGED <<bootVars, lockVars>>

\* time.sleep returns; lat is what the next pass spends before it reads the clock
Sleep(lat) ==
    /\ pc = "sleep"
    /\ now' = now + sleep_time + lat
    /\ polls' = polls + 1
    /\ pc' = "poll"
    /\ UNCHANGED <<microsecond, failures, sleep_time, last_outcome, failures_before,
                   boot_len, fieldVars>>
    /\ UNCHANGED aggVars
    /\ UNCHANGED <<bootVars, lockVars>>


\* ----------------------------------------------- ups_temperature in a pass
FieldTexts == {"20", "10.0", "n/a"}

\* get_ups_data parses what upsc reports for the field and add() buffers it
FieldAdd(text) ==
    /\ Len(field_window) < MaxFieldWindow
    /\ field_window' = Append(field_window, ParsedValue(text))
    /\ UNCHANGED field_flush
    /\ UNCHANGED <<pollerVars, cacheVars, records, boot_len, bootVars, lockVars>>

\* a due flush: the field's average is set on the new record as it is and the
\* record is committed; a commit that raises is caught, the flush returns
\* False and the buffer stays
FieldFlush ==
    /\ field_window # <<>>
    /\ HasColumn(_UPSDynamicData.columns, "ups_temperature")
    /\ LET column_type == TypeOfColumn(_UPSDynamicData.columns, "ups_temperature")
           value == SetAttr(_UPSDynamicData.columns, "ups_temperature",
                            FieldAverage(field_window))
           raises == CommitRaises(column_type, value)
       IN  /\ field_flush' = [result |-> IF raises THEN "failed" ELSE "ok",
                              column |-> column_type, value |-> value]
           /\ field_window' = IF raises THEN field_window
                              ELSE BufferAfterFlush(field_window)
    /\ UNCHANGED <<pollerVars, cacheVars, records, boot_len, bootVars, lockVars>>

\* ------------------------------------------------------------ init_database
\* create_static_model() at the start of init_database; an exception leaves
\* init_database and init_app, and the process exits
BootStaticModel(res) ==
    /\ boot = "create_static_model"
    /\ LET r == create_static_model(_UPSStaticData, res)
       IN  /\ _UPSStaticData' = r.model
           /\ boot' = IF r.raised THEN "down" ELSE "create_dynamic_model"
           /\ reads' = IF r.queried THEN Append(reads, res.kind) ELSE reads
           /\ last_call' = Call("create_static_model", _UPSStaticData, r, res,
                                Len(static_rows))
    /\ UNCHANGED <<boots, _UPSDynamicData, _UPSData, storage, boot_storage, static_rows>>
    /\ UNCHANGED <<pollerVars, cacheVars, records, boot_len, fieldVars, lockVars>>

BootDynamicModel(res) ==
    /\ boot = "create_dynamic_model"
    /\ LET r == create_dynamic_model(_UPSDynamicData, res)
       IN  /\ _UPSDynamicData' = r.model
           /\ boot' = IF r.raised THEN "down" ELSE "create_all"
           /\ reads' = IF r.queried THEN Append(reads, res.kind) ELSE reads
           /\ last_call' = Call("create_dynamic_model", _UPSDynamicData, r, res,
                                Len(static_rows))
    /\ UNCHANGED <<boots, _UPSStaticData, _UPSData, storage, boot_storage, static_rows>>
    /\ UNCHANGED <<pollerVars, cacheVars, records, boot_len, fieldVars, lockVars>>

BootCreateAll ==
    /\ boot = "create_all"
    /\ storage' = create_all(storage, _UPSStaticData, _UPSDynamicData)
    /\ boot' = "insert_initial_1"
    /\ UNCHANGED <<boots, _UPSStaticData, _UPSDynamicData, _UPSData, boot_storage,
                   static_rows, reads, last_call>>
    /\ UNCHANGED <<pollerVars, cacheVars, records, boot_len, fieldVars, lockVars>>

\* insert_initial_dynamic_data(), called twice by init_database: when the
\* dynamic table is empty it reads the device and inserts one row; whatever
\* goes wrong is logged and swallowed
BootInsertInitial(res) ==
    /\ boot \in {"insert_initial_1", "insert_initial_2"}
    /\ LET r == get_ups_model(_UPSData, _UPSDynamicData, res)
           empty == records = <<>>
           got == get_available_variables(res)
       IN  /\ _UPSData' = r.model
           /\ last_call' = Call("get_ups_model",
                                IF _UPSData # NoModel THEN _UPSData ELSE _UPSDynamicData,
                                r, res, Len(static_rows))
           /\ reads' = IF empty THEN Append(reads, res.kind) ELSE reads
           /\ records' = IF empty /\ ~got.raised
                         THEN InsertDynamic(records, storage.ups_dynamic_data, r.model,
                                            got.variables, now)
                         ELSE records
    /\ boot' = IF boot = "insert_initial_1" THEN "static_data" ELSE "running"
    /\ UNCHANGED <<boots, _UPSStaticData, _UPSDynamicData, storage, boot_storage,
                   static_rows>>
    /\ UNCHANGED <<pollerVars, cacheVars, boot_len, fieldVars, lockVars>>

\* the static data check of init_database and, when the table is empty,
\* initialize_static_data(); its exceptions are swallowed by init_database
BootStaticData(res) ==
    /\ boot = "static_data"
    /\ LET r == create_static_model(_UPSStaticData, res)
           got == get_available_variables(res)
       IN  IF StaticDataMissing(Len(static_rows))
           THEN /\ reads' = Append(reads, res.kind)
                /\ last_call' = Call("initialize_static_data", _UPSStaticData, r, res,
                                     Len(static_rows))
                /\ static_rows' = IF got.raised THEN static_rows
                                  ELSE InsertStatic(static_rows, storage.ups_static_data,
                                                    r.model, got.variables)
           ELSE UNCHANGED <<reads, last_call, static_rows>>
    /\ boot' = "insert_initial_2"
    /\ UNCHANGED <<boots, _UPSStaticData, _UPSDynamicData, _UPSData, storage, boot_storage>>
    /\ UNCHANGED <<pollerVars, cacheVars, records, boot_len, fieldVars, lockVars>>

SchemaFns == {"create_static_model", "create_dynamic_model", "get_ups_model"}

\* a request handler of the running application asks for a model while the
\* device would answer res
SchemaCall(fn, res) ==
    /\ boot = "running"
    /\ Len(reads) < MaxReads
    /\ LET r == CASE fn = "create_static_model" -> create_static_model(_UPSStaticData, res)
                  [] fn = "create_dynamic_model" -> create_dynamic_model(_UPSDynamicData, res)
                  [] fn = "get_ups_model" -> get_ups_model(_UPSData, _UPSDynamicData, res)
           before == CASE fn = "create_static_model" -> _UPSStaticData
                       [] fn = "create_dynamic_model" -> _UPSDynamicData
                       [] fn = "get_ups_model" ->
                             IF _UPSData # NoModel THEN _UPSData ELSE _UPSDynamicData
           keep == r.raised
       IN  /\ _UPSStaticData' = IF fn = "create_static_model" /\ ~keep
                                THEN r.model ELSE _UPSStaticData
           /\ _UPSDynamicData' = IF fn # "create_static_model" /\ ~keep /\ r.queried
                                 THEN r.model
                                 ELSE _UPSDynamicData
           /\ _UPSData' = IF fn = "get_ups_model" /\ ~keep THEN r.model ELSE _UPSData
           /\ reads' = IF r.queried THEN Append(reads, res.kind) ELSE reads
           /\ last_call' = Call(fn, before, r, res, Len(static_rows))
    /\ UNCHANGED <<boot, boots, storage, boot_storage, static_rows>>
    /\ UNCHANGED <<pollerVars, cacheVars, records, boot_len, fieldVars, lockVars>>

\* the process ends (crash, stop or a failed start-up) and is started again on
\* the same database file
Restart ==
    /\ boots < MaxBoots
    /\ boots' = boots + 1
    /\ boot' = "create_static_model"
    /\ _UPSStaticData' = NoModel
    /\ _UPSDynamicData' = NoModel
    /\ _UPSData' = NoModel
    /\ reads' = <<>>
    /\ last_call' = NoCall
    /\ boot_storage' = storage
    /\ boot_len' = Len(records)
    /\ UNCHANGED <<storage, static_rows, records>>
    /\ UNCHANGED <<pollerVars, cacheVars, lockVars, fieldVars>>

\* -------------------------------------------- the threads, one step at a time
\* save_ups_data returns (success, error) to polling_thread, which counts it
\* and goes to time.sleep(1)
SaveReturns(success) ==
    /\ failures_before' = failures
    /\ failures' = FailuresAfter(success, failures)
    /\ last_outcome' = IF success THEN "success" ELSE "read_fail"
    /\ sleep_time' = PollInterval
    /\ pc' = "sleep"

SaveContinues == UNCHANGED <<failures_before, failures, last_outcome, sleep_time, pc>>

At(t, label) == tpc' = [tpc EXCEPT ![t] = label]

\* polling_thread calls save_ups_data, which reads the clock and enters
\* get_ups_data
PollerStart ==
    /\ pc = "poll"
    /\ tpc["poller"] = "idle"
    /\ At("poller", "wait_ups")
    /\ UNCHANGED <<ups_lock, data_lock, upsc_running, upsc_result, sample, pending,
                   response, requests, command_log>>
    /\ UNCHANGED <<pollerVars, cacheVars, records, boot_len, fieldVars, bootVars>>

\* a page or API handler (index, api_data_all, ...) is entered and calls
\* get_ups_data
WebRequest ==
    /\ tpc["web"] = "idle"
    /\ requests < MaxRequests
    /\ requests' = requests + 1
    /\ At("web", "wait_ups")
    /\ UNCHANGED <<ups_lock, data_lock, upsc_running, upsc_result, sample, pending,
                   response, command_log>>
    /\ UNCHANGED <<pollerVars, cacheVars, records, boot_len, fieldVars, bootVars>>

\* get_ups_data: `with ups_lock:` is entered and upsc is started
AcquireUps(t) ==
    /\ tpc[t] = "wait_ups"
    /\ ups_lock = Free
    /\ ups_lock' = t
    /\ upsc_running' = upsc_running \cup {t}
    /\ At(t, "upsc")
    /\ UNCHANGED <<data_lock, upsc_result, sample, pending, response, requests,
                   command_log>>
    /\ UNCHANGED <<pollerVars, cacheVars, records, boot_len, fieldVars, bootVars>>

\* the poller's upsc ends as res: get_ups_data returns a sample to
\* save_ups_data, or raises and save_ups_data returns (False, message)
PollerRead(res) ==
    /\ tpc["poller"] = "upsc"
    /\ upsc_running' = upsc_running \ {"poller"}
    /\ ups_lock' = UpsLockReleased(ups_lock)
    /\ upsc_result' = [upsc_result EXCEPT !["poller"] = res.kind]
    /\ IF get_ups_data(res).raised
       THEN /\ SaveReturns(FALSE)
            /\ At("poller", "idle")
            /\ UNCHANGED sample
       ELSE /\ SaveContinues
            /\ At("poller", "add")
            /\ sample' = get_ups_data(res).data
    /\ flush_result' = "none"
    /\ UNCHANGED <<data_lock, pending, response, requests, command_log>>
    /\ UNCHANGED <<now, microsecond, polls, data, next_save_time, next_hour, hourly_data,
                   last_daily_aggregation, flush_window, flush_log, hourly_log, daily_log,
                   records, boot_len, fieldVars, bootVars>>

\* the handler's upsc ends as res: the page or JSON is built from the sample,
\* or the UPSDataError becomes the answer (500 / success: false)
WebRead(res) ==
    /\ tpc["web"] = "upsc"
    /\ upsc_running' = upsc_running \ {"web"}
    /\ ups_lock' = UpsLockReleased(ups_lock)
    /\ upsc_result' = [upsc_result EXCEPT !["web"] = res.kind]
    /\ response' = IF get_ups_data(res).raised
                   THEN [status |-> "error", data |-> NoSample]
                   ELSE [status |-> "ok", data |-> get_ups_data(res).data]
    /\ At("web", "idle")
    /\ UNCHANGED <<data_lock, sample, pending, requests, command_log>>
    /\ UNCHANGED <<pollerVars, cacheVars, records, boot_len, fieldVars, bootVars>>

\* ups_data_cache.add(now, data_dict)
PollerAdd ==
    /\ tpc["poller"] = "add"
    /\ next_save_time' = IF next_save_time = None THEN get_next_minute(now)
                         ELSE next_save_time
    /\ data' = Append(data, [timestamp |-> now, values |-> sample])
    /\ At("poller", "flush")
    /\ UNCHANGED <<ups_lock, data_lock, upsc_running, upsc_result, sample, pending,
                   response, requests, command_log>>
    /\ UNCHANGED <<pollerVars, next_hour, hourly_data, last_daily_aggregation,
                   flush_result, flush_window, flush_log, hourly_log, daily_log,
                   records, boot_len, fieldVars, bootVars>>

\* calculate_and_save_averages up to its `with data_lock:`; o is how the part
\* before the commit ends
PollerFlush(o) ==
    /\ tpc["poller"] = "flush"
    /\ LET nh == IF next_hour = None THEN get_next_hour(now) ELSE next_hour
           due == is_save_time(next_save_time, now)
           averages == calculate_averages(data)
           crossing == now >= nh
           hrs == IF crossing THEN HourlyAverage(records, nh) ELSE None
           appended == Append(hourly_data, [timestamp |-> next_save_time,
                                            ups_realpower |-> averages.ups_realpower])
       IN  /\ o = "ok" \/ due
           /\ o = "query_fail" => crossing
           /\ next_hour' = IF due /\ o = "ok" /\ crossing THEN NextHourAfterRollup(now)
                           ELSE nh
           /\ hourly_data' = IF ~due \/ o = "avg_fail" THEN hourly_data
                             ELSE IF o = "query_fail" \/ ~crossing THEN appended
                             ELSE <<>>
           /\ pending' = IF due /\ o = "ok"
                         THEN NewRow(RecordTimestamp(next_save_time, now),
                                     averages.ups_realpower, hrs, None,
                                     averages.battery_charge, averages.ups_status)
                         ELSE pending
           /\ IF due /\ o = "ok"
              THEN /\ SaveContinues
                   /\ At("poller", "wait_data")
                   /\ UNCHANGED flush_result
              ELSE /\ SaveReturns(TRUE)
                   /\ At("poller", "idle")
                   /\ flush_result' = IF due THEN "failed" ELSE "none"
    /\ UNCHANGED <<ups_lock, data_lock, upsc_running, upsc_result, sample, response,
                   requests, command_log>>
    /\ UNCHANGED <<now, microsecond, polls, data, next_save_time, last_daily_aggregation, flush_window,
                   flush_log, hourly_log, daily_log, records, boot_len, fieldVars, bootVars>>

\* the places where a thread stands at a `with data_lock:` it has not entered
DataLockWaits == {"wait_data", "wait_daily", "wait_except", "wait_stats", "wait_logs"}

\* the block each of them enters
Entered(label) ==
    CASE label = "wait_data" -> "commit"
      [] label = "wait_daily" -> "commit_daily"
      [] label = "wait_except" -> "commit_except"
      [] label = "wait_stats" -> "stats"
      [] label = "wait_logs" -> "logs"

\* `with data_lock:` is entered
AcquireData(t) ==
    /\ tpc[t] \in DataLockWaits
    /\ data_lock = Free
    /\ data_lock' = t
    /\ At(t, Entered(tpc[t]))
    /\ UNCHANGED <<ups_lock, upsc_running, upsc_result, sample, pending, response,
                   requests, command_log>>
    /\ UNCHANGED <<pollerVars, cacheVars, records, boot_len, fieldVars, bootVars>>

\* db.session.add(dynamic_data); db.session.commit() and the end of the with
\* block; a failed commit raises into the except branch, which returns False
PollerCommit(ok) ==
    /\ tpc["poller"] = "commit"
    /\ data_lock' = DataLockReleased(data_lock)
    /\ records' = IF ok THEN Append(records, pending) ELSE records
    /\ IF ok
       THEN /\ SaveContinues
            /\ At("poller", "clear")
            /\ UNCHANGED flush_result
       ELSE /\ SaveReturns(TRUE)
            /\ At("poller", "idle")
            /\ flush_result' = "failed"
    /\ UNCHANGED <<ups_lock, upsc_running, upsc_result, sample, pending, response,
                   requests, command_log>>
    /\ UNCHANGED <<now, microsecond, polls, data, next_save_time, next_hour, hourly_data,
                   last_daily_aggregation, flush_window, flush_log, hourly_log, daily_log,
                   boot_len, fieldVars, bootVars>>

\* after the commit: the buffer is emptied, next_save_time moves on, and
\* should_aggregate_daily / aggregate_daily_data run up to the daily commit
PollerClear ==
    /\ tpc["poller"] = "clear"
    /\ data' = BufferAfterFlush(data)
    /\ next_save_time' = get_next_minute(now)
    /\ LET daily == should_aggregate_daily(now, last_daily_aggregation)
       IN  /\ last_daily_aggregation' = IF daily THEN LocalDate(now)
                                        ELSE last_daily_aggregation
           /\ IF daily /\ DailyRows(records, now, microsecond) # <<>>
              THEN /\ SaveContinues
                   /\ At("poller", "wait_daily")
                   /\ UNCHANGED flush_result
              ELSE /\ SaveReturns(TRUE)
                   /\ At("poller", "idle")
                   /\ flush_result' = "ok"
    /\ UNCHANGED <<ups_lock, data_lock, upsc_running, upsc_result, sample, pending,
                   response, requests, command_log>>
    /\ UNCHANGED <<now, microsecond, polls, next_hour, hourly_data, flush_window, flush_log,
                   hourly_log, daily_log, records, boot_len, fieldVars, bootVars>>

\* aggregate_daily_data: db.session.add(new_daily); db.session.commit()
PollerCommitDaily(ok) ==
    /\ tpc["poller"] = "commit_daily"
    /\ data_lock' = DataLockReleased(data_lock)
    /\ records' = IF ok THEN records \o DailyRows(records, now, microsecond) ELSE records
    /\ SaveReturns(TRUE)
    /\ At("poller", "idle")
    /\ flush_result' = "ok"
    /\ UNCHANGED <<ups_lock, upsc_running, upsc_result, sample, pending, response,
                   requests, command_log>>
    /\ UNCHANGED <<now, microsecond, polls, data, next_save_time, next_hour, hourly_data,
                   last_daily_aggregation, flush_window, flush_log, hourly_log, daily_log,
                   boot_len, fieldVars, bootVars>>

\* execute_command: the request is taken and upscmd runs, then time.sleep(1)
CmdStart ==
    /\ tpc["cmd"] = "idle"
    /\ command_log < MaxCommands
    /\ At("cmd", "upscmd")
    /\ UNCHANGED <<ups_lock, data_lock, upsc_running, upsc_result, sample, pending,
                   response, requests, command_log>>
    /\ UNCHANGED <<pollerVars, cacheVars, records, boot_len, fieldVars, bootVars>>

\* get_ups_status: subprocess.run(['upsc', ups_target]) is started
CmdStatus ==
    /\ tpc["cmd"] = "upscmd"
    /\ upsc_running' = upsc_running \cup {"cmd"}
    /\ At("cmd", "upsc")
    /\ UNCHANGED <<ups_lock, data_lock, upsc_result, sample, pending, response, requests,
                   command_log>>
    /\ UNCHANGED <<pollerVars, cacheVars, records, boot_len, fieldVars, bootVars>>

\* get_ups_status returns (an empty status on a non-zero exit); the output is
\* assembled
CmdStatusRead(res) ==
    /\ tpc["cmd"] = "upsc"
    /\ res.kind # "timeout"
    /\ upsc_running' = upsc_running \ {"cmd"}
    /\ upsc_result' = [upsc_result EXCEPT !["cmd"] = res.kind]
    /\ At("cmd", "wait_data")
    /\ UNCHANGED <<ups_lock, data_lock, sample, pending, response, requests, command_log>>
    /\ UNCHANGED <<pollerVars, cacheVars, records, boot_len, fieldVars, bootVars>>

\* `with data_lock:` db.session.add(cmd_log); db.session.commit(), then
\* notify_command_executed is entered
CmdCommit ==
    /\ tpc["cmd"] = "commit"
    /\ command_log' = command_log + 1
    /\ data_lock' = DataLockReleased(data_lock)
    /\ At("cmd", "wait_stats")
    /\ UNCHANGED <<ups_lock, upsc_running, upsc_result, sample, pending, response,
                   requests>>
    /\ UNCHANGED <<pollerVars, cacheVars, records, boot_len, fieldVars, bootVars>>

\* the commit raises: the with block is left and the except branch comes to
\* its own `with data_lock:`
CmdCommitRaises ==
    /\ tpc["cmd"] = "commit"
    /\ data_lock' = DataLockReleased(data_lock)
    /\ At("cmd", "wait_except")
    /\ UNCHANGED <<ups_lock, upsc_running, upsc_result, sample, pending, response,
                   requests, command_log>>
    /\ UNCHANGED <<pollerVars, cacheVars, records, boot_len, fieldVars, bootVars>>

\* the except branch logs the failed command, notifies and re-raises; when
\* this commit raises too the exception leaves execute_command at once
CmdCommitExcept(ok) ==
    /\ tpc["cmd"] = "commit_except"
    /\ command_log' = IF ok THEN command_log + 1 ELSE command_log
    /\ data_lock' = DataLockReleased(data_lock)
    /\ At("cmd", IF ok THEN "wait_stats" ELSE "idle")
    /\ UNCHANGED <<ups_lock, upsc_running, upsc_result, sample, pending, response,
                   requests>>
    /\ UNCHANGED <<pollerVars, cacheVars, records, boot_len, fieldVars, bootVars>>

\* handle_connect / handle_initial_data: a socket client connects or asks for
\* the initial data, and emit_command_stats is entered
EventConnect ==
    /\ tpc["event"] = "idle"
    /\ At("event", "wait_stats")
    /\ UNCHANGED <<ups_lock, data_lock, upsc_running, upsc_result, sample, pending,
                   response, requests, command_log>>
    /\ UNCHANGED <<pollerVars, cacheVars, records, boot_len, fieldVars, bootVars>>

\* emit_command_stats: the counts are queried and emitted under data_lock; an
\* exception is logged, and emit_command_logs is entered either way
EmitStats(t) ==
    /\ tpc[t] = "stats"
    /\ data_lock' = DataLockReleased(data_lock)
    /\ At(t, "wait_logs")
    /\ UNCHANGED <<ups_lock, upsc_running, upsc_result, sample, pending, response,
                   requests, command_log>>
    /\ UNCHANGED <<pollerVars, cacheVars, records, boot_len, fieldVars, bootVars>>

\* emit_command_logs: the last commands are queried and emitted under
\* data_lock, and the handler returns
EmitLogs(t) ==
    /\ tpc[t] = "logs"
    /\ data_lock' = DataLockReleased(data_lock)
    /\ At(t, "idle")
    /\ UNCHANGED <<ups_lock, upsc_running, upsc_result, sample, pending, response,
                   requests, command_log>>
    /\ UNCHANGED <<pollerVars, cacheVars, records, boot_len, fieldVars, bootVars>>

\* ----------------------------------------------------------- specifications
Next ==
    \/ \E s \in Samples, o \in FlushOutcomes, d \in BOOLEAN :
          Len(data) < MaxBuf /\ PollSuccess(s, o, d)
    \/ PollReadFail
    \/ PollUnexpected
    \/ \E lat \in Latencies : polls < MaxPolls /\ Sleep(lat)

Spec == Init /\ [][Next]_vars

\* the thread is scheduled and time.sleep returns: every outcome of a pass,
\* over one sample value and back-to-back passes
FairInit == InitWith({T0 - 2}, {<<>>})

FairNext ==
    \/ \E o \in FlushOutcomes : PollSuccess(SteadySample, o, TRUE)
    \/ PollReadFail
    \/ PollUnexpected
    \/ polls < MaxFairPolls /\ Sleep(0)

FairSpec == FairInit /\ [][FairNext]_vars /\ WF_vars(FairNext)

\* once-per-second cycles: every pass adds a sample and runs the flush check
SteadyInit == InitWith({T0 - 2}, {<<>>})

SteadyNext ==
    \/ \E o \in {"ok", "commit_fail"} : PollSuccess(SteadySample, o, TRUE)
    \/ polls < MaxSteadyPolls /\ Sleep(0)

SteadySpec == SteadyInit /\ [][SteadyNext]_vars

\* windows of two and three samples over the richer sample set
AvgInit == InitWith({T0 - 62, T0 - 61}, {<<>>})

AvgNext ==
    \/ \E s \in AvgSamples : PollSuccess(s, "ok", TRUE)
    \/ polls < MaxAvgPolls /\ Sleep(0)

AvgSpec == AvgInit /\ [][AvgNext]_vars

\* a poller that starts on a whole minute or just before midnight, with
\* passes that are held up for a minute or for more than an hour (a blocked
\* host, a stepped clock)
LateStarts == {T0 - 60, T0 - 2}

LateLatencies == {0, 58, Hour + 58}

LateInit == InitAt(LateStarts, {0, HalfSecond}, {<<>>})

LateNext ==
    \/ \E o \in {"ok", "commit_fail"} : PollSuccess(SteadySample, o, TRUE)
    \/ \E lat \in LateLatencies : polls < MaxLatePolls /\ Sleep(lat)

LateSpec == LateInit /\ [][LateNext]_vars

\* the day before T0 as earlier runs of the poller left it: a row stamped at
\* an hour boundary carries the average of the hour that ended there
\* (00:00 that of the day before, 01:00 that of the first hour), per-minute
\* rows lie in the last hour; in the second store the UPS drew no power all
\* day; in the third no hourly average was written
DailyStores ==
    { <<NewRow(T0 - Day, 900, 900, None, None, "OL"),
        NewRow(T0 - Day + Hour, 1100, 1100, None, None, "OL"),
        NewRow(T0 - 120, 1501, None, None, None, "OL")>>,
      <<NewRow(T0 - Day + Hour, 0, 0, None, None, "OL"),
        NewRow(T0 - Hour, 0, 0, None, None, "OL")>>,
      <<NewRow(T0 - 120, 1501, None, None, None, "OL")>> }

\* the poller runs across the midnight T0; its clock readings fall on whole
\* seconds or between them
DailyInit == InitAt({T0 - 2}, {0, HalfSecond}, DailyStores)

DailyNext ==
    \/ \E s \in Samples, o \in {"ok", "commit_fail"} : PollSuccess(s, o, TRUE)
    \/ \E lat \in Latencies : polls < MaxDailyPolls /\ Sleep(lat)

DailySpec == DailyInit /\ [][DailyNext]_vars

\* the schema was inferred while the device reported ups.temperature as "20"
\* (ReportA: a Float column) or as "n/a" (ReportB: a String column); later
\* samples report it either way
FieldInit ==
    /\ Unpolled({T0 - 2}, {HalfSecond}, {<<>>})
    /\ \E report \in {ReportA, ReportB} : BootedWith(report)
    /\ Unlocked
    /\ FieldIdle

FieldNext ==
    \/ \E text \in FieldTexts : FieldAdd(text)
    \/ FieldFlush

FieldSpec == FieldInit /\ [][FieldNext]_vars

\* a fresh installation: init_database runs, handlers ask for models, the
\* process is restarted on the store it left
BootInit ==
    /\ now = T0 - 2
    /\ microsecond = HalfSecond
    /\ pc = "poll"
    /\ failures = 0
    /\ sleep_time = 0
    /\ last_outcome = "none"
    /\ failures_before = 0
    /\ polls = 0
    /\ data = <<>>
    /\ next_save_time = None
    /\ next_hour = None
    /\ hourly_data = <<>>
    /\ last_daily_aggregation = None
    /\ records = <<>>
    /\ boot_len = 0
    /\ flush_result = "none"
    /\ flush_window = <<>>
    /\ flush_log = <<>>
    /\ hourly_log = <<>>
    /\ daily_log = <<>>
    /\ boot = "create_static_model"
    /\ boots = 1
    /\ _UPSStaticData = NoModel
    /\ _UPSDynamicData = NoModel
    /\ _UPSData = NoModel
    /\ storage = NoStorage
    /\ boot_storage = NoStorage
    /\ static_rows = <<>>
    /\ reads = <<>>
    /\ last_call = NoCall
    /\ Unlocked
    /\ FieldIdle

BootNext ==
    \/ \E res \in UpscResults : BootStaticModel(res)
    \/ \E res \in UpscResults : BootDynamicModel(res)
    \/ BootCreateAll
    \/ \E res \in UpscResults : BootInsertInitial(res)
    \/ \E res \in UpscResults : BootStaticData(res)
    \/ \E fn \in SchemaFns, res \in UpscResults : SchemaCall(fn, res)
    \/ Restart

BootSpec == BootInit /\ [][BootNext]_vars

\* the poller, a page / API request and a UPS command running concurrently
\* over the midnight T0 on a store that holds an hourly average of the day
\* before
PollResults ==
    {UpscResult("ok", ReportA), UpscResult("nonzero", EmptyStdout),
     UpscResult("timeout", EmptyStdout)}

LockInit ==
    InitWith({T0 - 2}, {<<NewRow(T0 - 3600, 1200, 1100, None, None, "OL")>>})

LockNext ==
    \/ PollerStart
    \/ WebRequest
    \/ \E t \in {"poller", "web"} : AcquireUps(t)
    \/ \E res \in PollResults : PollerRead(res)
    \/ \E res \in PollResults : WebRead(res)
    \/ PollerAdd
    \/ \E o \in {"ok", "avg_fail", "query_fail"} : PollerFlush(o)
    \/ \E t \in {"poller", "cmd"} : AcquireData(t)
    \/ \E ok \in BOOLEAN : PollerCommit(ok)
    \/ PollerClear
    \/ \E ok \in BOOLEAN : PollerCommitDaily(ok)
    \/ polls < MaxLockPolls /\ Sleep(0)
    \/ CmdStart
    \/ CmdStatus
    \/ CmdStatusRead(UpscResult("ok", ReportA))
    \/ CmdCommit
    \/ EmitStats("cmd")
    \/ EmitLogs("cmd")

LockSpec == LockInit /\ [][LockNext]_vars

\* the poller, a page request, a UPS command and a socket client contending
\* for the two locks across the midnight T0; commands whose commit raises and
\* socket clients keep coming
ContendInit ==
    InitWith({T0 - 1}, {<<NewRow(T0 - 3600, 1200, 1100, None, None, "OL")>>})

\* the steps of thread t once its handler (or the poller's loop) is running
Steps(t) ==
    \/ t = "poller" /\ PollerStart
    \/ t \in {"poller", "web"} /\ AcquireUps(t)
    \/ t = "poller" /\ PollerRead(UpscResult("ok", ReportA))
    \/ t = "web" /\ \E res \in {UpscResult("ok", ReportA), UpscResult("timeout", EmptyStdout)} :
                        WebRead(res)
    \/ t = "poller" /\ PollerAdd
    \/ t = "poller" /\ PollerFlush("ok")
    \/ t \in {"poller", "cmd", "event"} /\ AcquireData(t)
    \/ t = "poller" /\ PollerCommit(TRUE)
    \/ t = "poller" /\ PollerClear
    \/ t = "poller" /\ PollerCommitDaily(TRUE)
    \/ t = "poller" /\ polls < MaxContendPolls /\ Sleep(0)
    \/ t = "cmd" /\ CmdStatus
    \/ t = "cmd" /\ CmdStatusRead(UpscResult("ok", ReportA))
    \/ t = "cmd" /\ CmdCommit
    \/ t = "cmd" /\ CmdCommitRaises
    \/ t = "cmd" /\ \E ok \in BOOLEAN : CmdCommitExcept(ok)
    \/ t \in {"cmd", "event"} /\ EmitStats(t)
    \/ t \in {"cmd", "event"} /\ EmitLogs(t)

ContendNext ==
    \/ WebRequest
    \/ CmdStart
    \/ EventConnect
    \/ \E t \in Threads : Steps(t)

\* every running thread is scheduled, and a thread blocked on a lock that is
\* released again and again gets it
ContendSpec ==
    ContendInit /\ [][ContendNext]_vars /\ \A t \in Threads : SF_vars(Steps(t))

TypeOK ==
    /\ pc \in {"poll", "sleep"}
    /\ failures \in Nat
    /\ sleep_time \in Nat
    /\ polls \in Nat
    /\ flush_result \in {"none", "ok", "failed"}
    /\ boot_len <= Len(records)


\* ------------------------------------------------------------------- claims
FlushedRow(e) == records[e.row]

FailedOutcomes == {"read_fail", "unexpected"}

C2_BackoffDelay ==
    (pc = "sleep" /\ last_outcome \in FailedOutcomes)
        => sleep_time = Min(MaxBackoff, Pow2(failures))

\* C3: a successful poll cycle leaves the failure counter at 0 whatever it was,
\* and a failure that follows a counter of 0 is failure number 1
C3_ResetOnSuccess ==
    /\ last_outcome = "success" => failures = 0
    /\ (last_outcome \in FailedOutcomes /\ failures_before = 0) => failures = 1

C3_Witness == last_outcome = "success" /\ failures_before >= 2 /\ failures = 0

\* C4: the polling loop has no exit, and after every outcome of a poll cycle
\* the thread eventually starts another attempt (within the modelled horizon)
C4_NeverTerminates ==
    /\ [](pc \in {"poll", "sleep"})
    /\ [](polls < MaxFairPolls => <>(pc = "poll"))

C4_Witness == pc = "poll" /\ last_outcome = "unexpected" /\ polls >= 1

\* C5: after a failed flush the raw sample buffer is empty
C5_BufferClearedOnFailure == flush_result = "failed" => data = <<>>

\* C6: a failed flush persists no record and changes none of next_hour, the
\* in-memory hourly window and the daily-aggregation guard
C6_AllOrNothing ==
    [][flush_result' = "failed" =>
          /\ records' = records
          /\ next_hour' = next_hour
          /\ hourly_data' = hourly_data
          /\ last_daily_aggregation' = last_daily_aggregation]_vars

NumericFields == {"ups_realpower", "battery_charge"}

Observed(f) == Present(Column(flush_window, f))

StatusSeen == SelectSeq(Column(flush_window, "ups_status"), LAMBDA s : s # "MISSING")

\* C8: a non-numeric field seen in the flushed window is stored as its most
\* recently observed value, also when the last sample does not report it
C8_LastObservedWins ==
    (flush_result = "ok" /\ StatusSeen # <<>>) =>
        FlushedRow(flush_log[Len(flush_log)]).ups_status = StatusSeen[Len(StatusSeen)]

\* the instantaneous-power values of the rows persisted before row k whose
\* timestamps lie in [from, from + 1h)
PowersOfHour(k, from) ==
    LET idx == {j \in 1..(k - 1) : /\ records[j].timestamp_tz >= from
                                   /\ records[j].timestamp_tz < from + Hour
                                   /\ records[j].ups_realpower # None}
    IN  [n |-> Cardinality(idx),
         vals |-> {records[j].ups_realpower : j \in idx},
         S |-> SumSeq(SelectSeq([j \in 1..(k - 1) |->
                                    IF j \in idx THEN records[j].ups_realpower ELSE None],
                                LAMBDA p : p # None))]

\* C9: the hourly average written by a flush that crosses the hour boundary H
\* is round(S/n, 2) over the persisted rows of [H-1h, H); nothing is written
\* when n = 0
C9_HourlyAverage ==
    \A i \in 1..Len(hourly_log) :
        LET e == hourly_log[i]
            w == PowersOfHour(e.row, e.boundary - Hour)
            v == FlushedRow(e).ups_realpower_hrs
        IN  IF w.n = 0 THEN v = None
            ELSE v # None /\ 2 * Abs(v * w.n - w.S) <= w.n

C9_Witness ==
    \E i \in 1..Len(hourly_log) :
        /\ PowersOfHour(hourly_log[i].row, hourly_log[i].boundary - Hour).n >= 3
        /\ FlushedRow(hourly_log[i]).ups_realpower_hrs # None

\* C10: a row gets an hourly average only from a flush at which now had
\* reached next_hour; no two rows carry the average of the same completed
\* hour; the value lies within the powers persisted for that hour; and a
\* persisted row is never written again
C10_HourlyOnce ==
    /\ [](/\ \A k \in (boot_len + 1)..Len(records) :
               records[k].ups_realpower_hrs # None =>
                   \E i \in 1..Len(hourly_log) :
                       /\ hourly_log[i].row = k
                       /\ hourly_log[i].at >= hourly_log[i].boundary
                       /\ hourly_log[i].hour + Hour = hourly_log[i].boundary
          /\ \A i, j \in 1..Len(hourly_log) :
               (/\ i # j
                /\ FlushedRow(hourly_log[i]).ups_realpower_hrs # None
                /\ FlushedRow(hourly_log[j]).ups_realpower_hrs # None)
                   => hourly_log[i].hour # hourly_log[j].hour
          /\ \A i \in 1..Len(hourly_log) :
               LET v == FlushedRow(hourly_log[i]).ups_realpower_hrs
                   w == PowersOfHour(hourly_log[i].row, hourly_log[i].hour)
               IN  v # None => /\ \E p \in w.vals : p <= v
                               /\ \E p \in w.vals : v <= p)
    /\ [][\A k \in 1..Len(records) : records'[k] = records[k]]_vars

C10_Witness ==
    \E i \in 1..Len(hourly_log) :
        /\ FlushedRow(hourly_log[i]).ups_realpower_hrs # None
        /\ hourly_log[i].at > hourly_log[i].boundary
        /\ Len(records) > hourly_log[i].row

\* C11: the daily rollup runs exactly once per calendar date: no date is
\* rolled up twice, and once the first minute after a midnight the poller ran
\* across has passed, the rollup of that date has run
C11_DailyExactlyOnce ==
    /\ \A i, j \in 1..Len(daily_log) :
          i # j => daily_log[i].date # daily_log[j].date
    /\ now >= T0 + Minute =>
          \E i \in 1..Len(daily_log) : daily_log[i].date = LocalDate(T0)

\* the rows a per-minute flush of this process has created
FlushedRows == {flush_log[i].row : i \in 1..Len(flush_log)}

\* C12: at most one persisted row per calendar day has the daily-average field
\* populated, and a row created by the per-minute flush has none
C12_DailyFieldOnlyOnDailyRow ==
    /\ \A k \in FlushedRows : records[k].ups_realpower_days = None
    /\ \A j, k \in (boot_len + 1)..Len(records) :
          (/\ j # k
           /\ records[j].ups_realpower_days # None
           /\ records[k].ups_realpower_days # None)
              => LocalDate(records[j].timestamp_tz) # LocalDate(records[k].timestamp_tz)

\* C13: through every start-up, restart included, ups_static_data holds zero
\* or one row; initialize_static_data runs only on an empty table; and a row,
\* once stored, is never changed, replaced or joined by a second one
C13_IdentityAtMostOnce ==
    /\ [](/\ Len(static_rows) <= 1
          /\ last_call.fn = "initialize_static_data" => last_call.rows_before = 0)
    /\ [][static_rows # <<>> => static_rows' = static_rows]_vars

\* a restarted process has passed the static data check on a store that holds
\* the row, while the device now reports another model than the stored one
C13_Witness ==
    /\ boots >= 2
    /\ boot = "running"
    /\ Len(static_rows) = 1
    /\ Len(reads) >= 2
    /\ last_call.device.kind = "ok"
    /\ last_call.device.stdout.device_model # static_rows[1].device_model

\* C14: a model getter called when its model is memoized returns that very
\* model and does not run upsc; within a process a memoized model never
\* changes, and a table that exists is never created again or altered
C14_SchemaIdempotent ==
    /\ []((last_call.fn \in SchemaFns /\ last_call.before # NoModel)
             => /\ last_call.returned = last_call.before
                /\ ~last_call.queried)
    /\ [][/\ boots' = boots =>
               /\ _UPSStaticData # NoModel => _UPSStaticData' = _UPSStaticData
               /\ _UPSDynamicData # NoModel => _UPSDynamicData' = _UPSDynamicData
               /\ _UPSData # NoModel => _UPSData' = _UPSData
          /\ \A t \in DOMAIN storage :
               storage[t] # NoTable => storage'[t] = storage[t]]_vars

\* a handler asked for the dynamic model while the device reported fields and
\* types other than the memoized ones
C14_Witness ==
    /\ boot = "running"
    /\ last_call.fn = "create_dynamic_model"
    /\ last_call.before # NoModel
    /\ last_call.device.kind = "ok"
    /\ UPSDynamicData(last_call.device.stdout) # last_call.returned

\* the ways a device read fails
FailedReads == {"nonzero", "timeout"}

\* C19: while every device read of the process so far has failed (timeout, or
\* non-zero exit with empty output), no model is memoized and the storage is
\* as the process found it
C19_NoSchemaFromFailedRead ==
    (reads # <<>> /\ \A i \in 1..Len(reads) : reads[i] \in FailedReads)
        => /\ _UPSStaticData = NoModel
           /\ _UPSDynamicData = NoModel
           /\ _UPSData = NoModel
           /\ storage = boot_storage

\* C15: at most one upsc invocation is in flight at any time, and a thread
\* running upsc holds ups_lock
C15_SingleFlight ==
    /\ Cardinality(upsc_running) <= 1
    /\ \A t \in upsc_running : ups_lock = t

\* C16: the buffer and the measurement table change only in a step of the
\* poller taken while it holds data_lock, and the command table only in a
\* step of the command handler taken while it holds data_lock
C16_MutationsUnderDataLock ==
    [][/\ (data' # data \/ records' # records) => data_lock = "poller"
       /\ command_log' # command_log => data_lock = "cmd"]_vars

\* C17: a thread that holds data_lock is not running upsc and is not waiting
\* for ups_lock
C17_NoDeviceIOUnderDataLock ==
    \A t \in Threads :
        data_lock = t => /\ t \notin upsc_running
                         /\ tpc[t] \notin {"wait_ups", "upsc"}

\* the poller commits the flush of a window it read from the device while
\* another thread has upsc in flight
C17_Witness ==
    /\ data_lock = "poller"
    /\ tpc["poller"] = "commit"
    /\ upsc_result["poller"] = "ok"
    /\ upsc_running # {}

\* C18: a page / API handler never queries the device itself and is never
\* answered with the device's failure
C18_ReadersNeverSeeDeviceFailure ==
    /\ tpc["web"] \notin {"wait_ups", "upsc"}
    /\ "web" \notin upsc_running
    /\ response.status # "error"

\* the part of save_ups_data that has a sample in hand
HoldingSample == {"add", "flush", "wait_data", "commit", "clear", "wait_daily",
                  "commit_daily"}

\* C20: after the poller's upsc exited non-zero or timed out, save_ups_data
\* has no sample to buffer and the attempt is not counted as a success
C20_FailedQueryYieldsNoSample ==
    upsc_result["poller"] \in FailedReads
        => /\ tpc["poller"] \notin HoldingSample
           /\ ~(pc = "sleep" /\ last_outcome = "success")

\* C21: every successful flush moves next_save_time to exactly one minute
\* after the boundary the flushed record was stamped with, however late the
\* flush ran
C21_AdvanceByOneMinute ==
    [][Len(flush_log') > Len(flush_log)
          => next_save_time' = flush_log'[Len(flush_log')].ts + Minute]_vars

\* C22: the record a flush creates is stamped with the value next_save_time
\* had when the flush started, not with the clock, so every flushed record's
\* timestamp is a whole minute without a sub-second part
C22_StampedAtBoundary ==
    /\ [](\A i \in 1..Len(flush_log) :
             /\ FlushedRow(flush_log[i]).timestamp_tz % Minute = 0
             /\ FlushedRow(flush_log[i]).timestamp_us = 0)
    /\ [][(Len(flush_log') > Len(flush_log) /\ next_save_time # None)
             => records'[flush_log'[Len(flush_log')].row].timestamp_tz = next_save_time]_vars

\* a record flushed more than a minute after its boundary, by a pass whose
\* clock was not on a whole minute
C22_Witness ==
    \E i \in 1..Len(flush_log) :
        /\ flush_log[i].at >= flush_log[i].ts + Minute
        /\ flush_log[i].at % Minute # 0
        /\ FlushedRow(flush_log[i]).timestamp_tz = flush_log[i].ts

\* the earliest whole minute at or after the instant t.us
MinuteAtOrAfter(t, us) ==
    IF t % Minute = 0 /\ us = 0 THEN t ELSE FloorTo(t, Minute) + Minute

\* C23: the first add sets next_save_time to the earliest whole minute at or
\* after its timestamp; a timestamp on a whole minute yields that minute
C23_FirstBoundaryAtOrAfter ==
    [][(next_save_time = None /\ next_save_time' # None)
          => next_save_time' = MinuteAtOrAfter(now, microsecond)]_vars

\* C24: each hourly rollup moves next_hour to exactly one hour after the
\* boundary it rolled up, so the boundaries of consecutive rollups are one
\* hour apart and none that was reached is left out
C24_AdvanceByOneHour ==
    /\ [](\A i \in 1..(Len(hourly_log) - 1) :
             hourly_log[i + 1].boundary = hourly_log[i].boundary + Hour)
    /\ [][Len(hourly_log') > Len(hourly_log)
             => next_hour' = hourly_log'[Len(hourly_log')].boundary + Hour]_vars

\* the daily rollups that persisted a row
DailyWritten == {i \in 1..Len(daily_log) : daily_log[i].rows = 1}

\* the midnight a rollup ran just after
MidnightOf(e) == FloorTo(e.at, Day)

\* the hour whose average row j carries: the one the rollup that wrote it
\* closed, for a row of an earlier run the hour that ended at its timestamp
HourOfRow(j) ==
    IF \E i \in 1..Len(hourly_log) : hourly_log[i].row = j
    THEN (CHOOSE h \in {hourly_log[i].hour : i \in {n \in 1..Len(hourly_log) :
                                                      hourly_log[n].row = j}} : TRUE)
    ELSE records[j].timestamp_tz - Hour

\* the rows persisted before the daily row of e that carry the hourly average
\* of an hour of the day before MidnightOf(e)
HoursOfDayBefore(e) ==
    {j \in 1..(e.row - 1) : /\ records[j].ups_realpower_hrs # None
                            /\ HourOfRow(j) >= MidnightOf(e) - Day
                            /\ HourOfRow(j) < MidnightOf(e)}

SumOver(idx) ==
    SumSeq(SelectSeq([j \in 1..Len(records) |->
                         IF j \in idx THEN records[j].ups_realpower_hrs ELSE None],
                     LAMBDA h : h # None))

\* C25: the daily average persisted just after midnight M is the mean
\* (rounded to 2 decimals) of the hourly averages of the hours of [M-1day, M),
\* each counted once, and of no other hour
C25_DailyMeanOfPreviousDay ==
    \A i \in DailyWritten :
        LET e == daily_log[i]
            idx == HoursOfDayBefore(e)
            v == records[e.row].ups_realpower_days
        IN  /\ idx # {}
            /\ 2 * Abs(v * Cardinality(idx) - SumOver(idx)) <= Cardinality(idx)

\* C26: the row the daily rollup persists is dated at the previous local
\* midnight with no sub-second part and has only the daily average set
C26_DailyRowAtMidnight ==
    \A i \in DailyWritten :
        LET e == daily_log[i]
            r == records[e.row]
        IN  /\ r.timestamp_tz = MidnightOf(e) - Day
            /\ r.timestamp_us = 0
            /\ r.ups_realpower_days # None
            /\ r.ups_realpower = None
            /\ r.ups_realpower_hrs = None
            /\ r.battery_charge = None
            /\ r.ups_status = "NONE"

\* C30: whenever the daily rollup runs and a row of its window has an hourly
\* average, it persists a daily row, also when the mean is 0
C30_ZeroMeanPersisted ==
    \A i \in 1..Len(daily_log) :
        LET e == daily_log[i]
            win == RowsBetween(SubSeq(records, 1, e.row - 1), MidnightOf(e) - Day,
                               MidnightOf(e), microsecond)
        IN  (\E j \in 1..Len(win) : win[j].ups_realpower_hrs # None) <=> e.rows = 1

\* C28: a sample (identified by the clock reading it was added with) is
\* averaged into at most one flushed record: the windows of two flushes share
\* no sample, no buffered sample was already flushed, and a successful flush
\* leaves the buffer empty
C28_SampleInAtMostOneRecord ==
    /\ \A i, j \in 1..Len(flush_log) :
          i # j => flush_log[i].stamps \cap flush_log[j].stamps = {}
    /\ \A k \in 1..Len(data), i \in 1..Len(flush_log) :
          data[k].timestamp \notin flush_log[i].stamps
    /\ flush_result = "ok" => data = <<>>

\* two records were flushed, the first one after a failed flush had left its
\* samples in the buffer
C28_Witness ==
    /\ Len(flush_log) = 2
    /\ \E t \in flush_log[1].stamps : t >= flush_log[1].ts /\ t < flush_log[1].at
    /\ flush_log[2].stamps # {}

\* the flushed value's type is not the one the schema inferred for the field
Mismatch(f) == f.result # "none" /\ PythonType(f.column) # f.value.type

\* C27: a flush whose value for a field has another type than the field's
\* column does not fail, and the value it stores for the field is a string
C27_MismatchCoercedToString ==
    Mismatch(field_flush) => /\ field_flush.result = "ok"
                             /\ field_flush.value.type = "str"

\* C29: no thread holds data_lock and ups_lock together, no thread stands at
\* a `with` of a lock while it holds one, and every thread that stands at a
\* `with` of a lock comes to hold that lock (data_lock is taken by the
\* poller, the command handler and the socket handlers, ups_lock by the
\* poller and the page handlers)
C29_NoDeadlock ==
    /\ [](\A t \in Threads :
            /\ ~(ups_lock = t /\ data_lock = t)
            /\ (ups_lock = t \/ data_lock = t) => tpc[t] \notin DataLockWaits \cup {"wait_ups"})
    /\ \A t \in {"poller", "cmd", "event"} : (tpc[t] \in DataLockWaits) ~> (data_lock = t)
    /\ \A t \in {"poller", "web"} : (tpc[t] = "wait_ups") ~> (ups_lock = t)

\* the command's except branch holds data_lock for its second commit while
\* the poller and a socket client wait for it and a page request reads the
\* device under ups_lock
C29_Witness ==
    /\ data_lock = "cmd"
    /\ tpc["cmd"] = "commit_except"
    /\ tpc["poller"] = "wait_data"
    /\ tpc["event"] \in DataLockWaits
    /\ ups_lock = "web"

====
